---- MODULE Spec2Model ----
(***************************************************************************)
(* A model of arxiveroo's paper pipeline, fetch_all_papers                 *)
(* (src/arxiveroo/tools/query/all_resources.py): preference loading,       *)
(* category resolution, the three source adapters, the annotation loop,    *)
(* the ranking and the report.                                             *)
(*                                                                         *)
(* Strings whose content matters are sequences of tokens (titles, dates),  *)
(* a datetime.date is the tuple <<year, month, day>>, and Entry.published  *)
(* (strftime "%d/%m/%Y") is the tuple <<day, month, year>>.                *)
(***************************************************************************)
EXTENDS Integers, Sequences, FiniteSets, TLC

VARIABLES
    pc,                   \* position in fetch_all_papers
    error,                \* the exception that left fetch_all_papers, or "none"
    files,                \* the preference directory: file name -> [exists, data]
    resources,            \* rows of categories_index.csv
    start_date, end_date, \* the arguments of fetch_all_papers (NoDate is None)
    today,                \* datetime.datetime.utcnow().date()
    user_preferences,     \* the loaded preference text
    categories,           \* the loaded category selection
    categories_by_source, \* source -> list of codes
    requests,             \* the upstream requests issued so far
    response,             \* the upstream response of the last adapter call
    arxiv_entries, biorxiv_entries, medrxiv_entries,
    all_entries,
    idx,                  \* number of judge calls that have returned
    judged,               \* the entries sent to the judge, in order
    inFlight,             \* judge calls issued and not yet returned
    annotation,           \* the annotation returned by the last judge call
    annotations,          \* step.output: the (title, annotation) blocks it shows
    relevant_entries,     \* the rows appended by the loop
    ranked,               \* relevant_entries after concat/sort/drop_duplicates
    formatted_output,     \* the report
    record,               \* the upstream record handed to get_pdf_link
    link,                 \* the link get_pdf_link returned for it
    command,              \* msg.command of the chat message being handled
    bound,                \* the local names on_message has assigned so far
    shown,                \* the selection last shown to the user
    answers,              \* the user's answers to the satisfaction prompt
    summary_model         \* what the model returned for the interests summary

vars == <<pc, error, files, resources, start_date, end_date, today,
          user_preferences, categories, categories_by_source, requests,
          response, arxiv_entries, biorxiv_entries, medrxiv_entries,
          all_entries, idx, judged, inFlight, annotation, annotations,
          relevant_entries, ranked, formatted_output, record, link,
          command, bound, shown, answers, summary_model>>

fetchVars == <<files, resources, start_date, end_date, today,
               user_preferences, categories, categories_by_source, requests,
               response, arxiv_entries, biorxiv_entries, medrxiv_entries>>

annotVars == <<idx, judged, inFlight, annotation, annotations,
               relevant_entries, ranked, formatted_output>>

linkVars == <<record, link>>

chatVars == <<command, bound, shown, answers, summary_model>>

(***************************************************************************)
(* Bounds of the model.                                                    *)
(***************************************************************************)
MaxFeed == 2        \* records in one arXiv feed
MaxCollection == 2  \* records in one bioRxiv or medRxiv collection
MaxEntries == 3     \* entries of a short concatenated sequence
MaxRelevant == 3    \* relevant verdicts the judge gives in one run

(***************************************************************************)
(* Dates.                                                                  *)
(***************************************************************************)
NoDate == <<>>
D1 == <<2024, 12, 31>>
D2 == <<2025, 1, 1>>
D3 == <<2025, 1, 2>>
D4 == <<2025, 1, 3>>

\* datetime.date comparison: by year, then month, then day
DateLE(a, b) ==
    \/ a[1] < b[1]
    \/ a[1] = b[1] /\ a[2] < b[2]
    \/ a[1] = b[1] /\ a[2] = b[2] /\ a[3] <= b[3]

DaysInMonth(y, m) ==
    IF m \in {4, 6, 9, 11} THEN 30
    ELSE IF m = 2 THEN (IF y % 4 = 0 /\ (y % 100 # 0 \/ y % 400 = 0) THEN 29 ELSE 28)
    ELSE 31

\* whether strptime accepts the date string s (the tokens year, month, day)
CanParseDate(s) ==
    /\ Len(s) = 3
    /\ s[1] \in 1..9999
    /\ s[2] \in 1..12
    /\ s[3] \in 1..DaysInMonth(s[1], s[2])

\* strptime(...).date()
ParseDate(s) == <<s[1], s[2], s[3]>>

\* strftime("%d/%m/%Y")
FormatPublished(d) == <<d[3], d[2], d[1]>>

(***************************************************************************)
(* Text: a title is a sequence of tokens, " " and "\n" being whitespace.   *)
(***************************************************************************)
IsSpace(t) == t \in {" ", "\n"}

RECURSIVE LStrip(_)
LStrip(s) == IF s # <<>> /\ IsSpace(Head(s)) THEN LStrip(Tail(s)) ELSE s

RECURSIVE RStrip(_)
RStrip(s) ==
    IF s # <<>> /\ IsSpace(s[Len(s)]) THEN RStrip(SubSeq(s, 1, Len(s) - 1)) ELSE s

\* str.strip()
Strip(s) == RStrip(LStrip(s))

\* str.replace("\n", " ")
ReplaceNewline(s) == [i \in 1..Len(s) |-> IF s[i] = "\n" THEN " " ELSE s[i]]

\* entry.title.strip().replace("\n", " ")
CleanTitle(raw) == ReplaceNewline(Strip(raw))

\* str.lower() on the category codes of the model
Lower(c) ==
    CASE c = "Genomics" -> "genomics"
      [] c = "Epidemiology" -> "epidemiology"
      [] c = "cs.AI" -> "cs.ai"
      [] c = "cs.LG" -> "cs.lg"
      [] OTHER -> c

Range(s) == {s[i] : i \in 1..Len(s)}

\* the lists that hold exactly the elements of the set S, once each
ListsOf(S) ==
    {l \in [1..Cardinality(S) -> S] : Range(l) = S}

(***************************************************************************)
(* Exceptions and Python return values.                                    *)
(***************************************************************************)
NoError == [type |-> "none", msg |-> ""]
Raise(t, m) == [type |-> t, msg |-> m]

InitializeFirst == "User preferences file not found. Please run the Initialize tool first."

(***************************************************************************)
(* The preference directory and the taxonomy.                              *)
(***************************************************************************)
PrefFile == "user_preferences.json"
CatFile == "categories.json"
FileNames == {PrefFile, CatFile}

Absent == [exists |-> FALSE, data |-> <<>>]
Stored(d) == [exists |-> TRUE, data |-> d]

PrefTexts == {<<"methods", "for", "genomics">>}

Selections ==
    { <<>>,
      <<"cs.AI">>,
      <<"Genomics", "Epidemiology">>,
      <<"cs.AI", "cs.LG", "Genomics", "Epidemiology">> }

Sources == {"arxiv", "biorxiv", "medrxiv"}

Row(c, d) == [category_code |-> c, database |-> d]

\* contents of categories_index.csv: every table lists all three databases,
\* as generate_index writes them
Taxonomies ==
    { << Row("cs.AI", "arxiv"), Row("cs.LG", "arxiv"),
         Row("Genomics", "biorxiv"), Row("neuroscience", "biorxiv"),
         Row("Epidemiology", "medrxiv") >>,
      << Row("cs.AI", "arxiv"), Row("Epidemiology", "biorxiv"),
         Row("Genomics", "biorxiv"), Row("Epidemiology", "medrxiv") >> }

\* resources["database"].unique()
Databases(res) == {res[i].database : i \in 1..Len(res)}

\* set(resources[resources["database"] == source]["category_code"])
TaxonomyCodes(res, source) ==
    {res[i].category_code : i \in {j \in 1..Len(res) : res[j].database = source}}

\* load_user_preferences that only looks for the preference text
LoadPreferenceTextOnly(dir) ==
    IF ~dir[PrefFile].exists
    THEN [exc |-> Raise("FileNotFoundError", InitializeFirst),
          user_preferences |-> <<>>, categories |-> <<>>]
    ELSE [exc |-> NoError,
          user_preferences |-> dir[PrefFile].data,
          categories |-> dir[CatFile].data]

\* load_user_preferences: both files are opened for reading, a missing one
\* raises FileNotFoundError with the Initialize message
load_user_preferences(dir) ==
    IF ~dir[PrefFile].exists \/ ~dir[CatFile].exists
    THEN [exc |-> Raise("FileNotFoundError", InitializeFirst),
          user_preferences |-> <<>>, categories |-> <<>>]
    ELSE [exc |-> NoError,
          user_preferences |-> dir[PrefFile].data,
          categories |-> dir[CatFile].data]

\* the resolution without the intersection with the user's selection
ResolvedCodesUnfiltered(res, cats, source) == TaxonomyCodes(res, source)

\* categories_by_source[source], as a set
ResolvedCodes(res, cats, source) == TaxonomyCodes(res, source) \cap Range(cats)

(***************************************************************************)
(* The source adapters.  An adapter call yields the request it issued, the *)
(* exception it raised, and the Python value it returned: the tuple        *)
(* (text, entries) is <<text, entries>>, the empty list [] is <<>>.        *)
(***************************************************************************)
Entry(t, p, c, d) == [title |-> t, published |-> p, category |-> c, database |-> d]

Request(src, terms, s, e) == [source |-> src, cat_terms |-> terms, window |-> <<s, e>>]

\* "if end_date is None: end_date = today", the same for start_date
DefaultDate(d, tdy) == IF d = NoDate THEN tdy ELSE d

\* format_entries: the header line (window and count) and one block per entry
format_entries(entries, s, e) ==
    [from |-> s, to |-> e, count |-> Len(entries),
     blocks |-> [i \in 1..Len(entries) |-> Strip(entries[i].title)]]

\* the loop over feed.entries: parse the date, keep the entries of the window
RECURSIVE ArxivEntries(_, _, _, _, _)
ArxivEntries(recs, cats, s, e, acc) ==
    IF recs = <<>> THEN [exc |-> NoError, entries |-> acc]
    ELSE LET r == Head(recs) IN
         IF ~CanParseDate(r.published)
         THEN [exc |-> Raise("ValueError", "time data does not match format"),
               entries |-> acc]
         ELSE LET published_date == ParseDate(r.published) IN
              IF DateLE(s, published_date) /\ DateLE(published_date, e)
              THEN IF ~r.has_primary /\ cats = <<>>
                   THEN [exc |-> Raise("IndexError", "list index out of range"),
                         entries |-> acc]
                   ELSE ArxivEntries(Tail(recs), cats, s, e,
                            Append(acc,
                                Entry(CleanTitle(r.title),
                                      FormatPublished(published_date),
                                      IF r.has_primary THEN r.primary ELSE cats[1],
                                      "arxiv")))
              ELSE ArxivEntries(Tail(recs), cats, s, e, acc)

\* feedparser.parse: a response that is not a feed has no entries
FeedEntries(resp) == IF resp.status = 200 THEN resp.entries ELSE <<>>

fetch_arxiv_papers(cats, start, end, tdy, resp) ==
    LET e == DefaultDate(end, tdy)
        s == DefaultDate(start, tdy)
        r == ArxivEntries(FeedEntries(resp), cats, s, e, <<>>)
    IN  [request |-> Request("arxiv", cats, s, e),
         exc |-> r.exc,
         ret |-> IF r.exc = NoError
                 THEN <<format_entries(r.entries, s, e), r.entries>>
                 ELSE <<>>]

\* the loop over data["collection"]: keep the records of the categories
RECURSIVE BiorxivEntriesAnyCategory(_, _, _)
BiorxivEntriesAnyCategory(recs, lowered, acc) ==
    IF recs = <<>> THEN [exc |-> NoError, entries |-> acc]
    ELSE LET r == Head(recs) IN
         IF ~CanParseDate(r.date)
         THEN [exc |-> Raise("ValueError", "time data does not match format"),
               entries |-> acc]
         ELSE BiorxivEntriesAnyCategory(Tail(recs), lowered,
                  Append(acc,
                      Entry(CleanTitle(r.title),
                            FormatPublished(ParseDate(r.date)),
                            r.category,
                            "biorxiv")))

RECURSIVE BiorxivEntries(_, _, _)
BiorxivEntries(recs, lowered, acc) ==
    IF recs = <<>> THEN [exc |-> NoError, entries |-> acc]
    ELSE LET r == Head(recs) IN
         IF Lower(r.category) \in lowered
         THEN IF ~CanParseDate(r.date)
              THEN [exc |-> Raise("ValueError", "time data does not match format"),
                    entries |-> acc]
              ELSE BiorxivEntries(Tail(recs), lowered,
                       Append(acc,
                           Entry(CleanTitle(r.title),
                                 FormatPublished(ParseDate(r.date)),
                                 r.category,
                                 "biorxiv")))
         ELSE BiorxivEntries(Tail(recs), lowered, acc)

fetch_biorxiv_papers(cats, start, end, tdy, resp) ==
    LET lowered == {Lower(c) : c \in Range(cats)}
        e == DefaultDate(end, tdy)
        s == DefaultDate(start, tdy)
        r == BiorxivEntries(resp.collection, lowered, <<>>)
        req == Request("biorxiv", <<>>, s, e)
    IN  IF resp.status # 200
        THEN [request |-> req, exc |-> NoError, ret |-> <<>>]
        ELSE IF ~resp.has_collection
        THEN [request |-> req, exc |-> NoError, ret |-> <<>>]
        ELSE [request |-> req,
              exc |-> r.exc,
              ret |-> IF r.exc = NoError
                      THEN <<format_entries(r.entries, s, e), r.entries>>
                      ELSE <<>>]

\* the medRxiv adapter of the pipeline: a range query, a case-insensitive
\* category filter, a record whose date does not parse is skipped, entries
\* lie in the window, and a failing upstream yields no entries
RECURSIVE MedrxivEntries(_, _, _, _, _)
MedrxivEntries(recs, lowered, s, e, acc) ==
    IF recs = <<>> THEN acc
    ELSE LET r == Head(recs) IN
         IF /\ Lower(r.category) \in lowered
            /\ CanParseDate(r.date)
            /\ DateLE(s, ParseDate(r.date))
            /\ DateLE(ParseDate(r.date), e)
         THEN MedrxivEntries(Tail(recs), lowered, s, e,
                  Append(acc,
                      Entry(CleanTitle(r.title),
                            FormatPublished(ParseDate(r.date)),
                            r.category,
                            "medrxiv")))
         ELSE MedrxivEntries(Tail(recs), lowered, s, e, acc)

fetch_medrxiv_papers(cats, start, end, tdy, resp) ==
    LET lowered == {Lower(c) : c \in Range(cats)}
        e == DefaultDate(end, tdy)
        s == DefaultDate(start, tdy)
        entries == IF resp.status = 200 /\ resp.has_collection
                   THEN MedrxivEntries(resp.collection, lowered, s, e, <<>>)
                   ELSE <<>>
    IN  [request |-> Request("medrxiv", <<>>, s, e),
         exc |-> NoError,
         ret |-> <<format_entries(entries, s, e), entries>>]

\* "_, entries = adapter(...)": the returned value must hold two items
Unpack(r) ==
    IF r.exc # NoError THEN [exc |-> r.exc, entries |-> <<>>]
    ELSE IF Len(r.ret) # 2
    THEN [exc |-> Raise("ValueError", "not enough values to unpack (expected 2, got 0)"),
          entries |-> <<>>]
    ELSE [exc |-> NoError, entries |-> r.ret[2]]

(***************************************************************************)
(* Upstream records and responses.                                         *)
(***************************************************************************)
RawA1 == <<" ", "Paper", "\n", "A", "\n">>
RawA2 == <<"Paper", " ", "A">>
RawB == <<"Paper", " ", "B">>
RawC == <<"Paper", " ", "C">>

BadDate == <<2025, 13, 1>>

SeqsUpTo(S, n) == UNION {[1..k -> S] : k \in 0..n}

FeedRecord(t, p, h, c) == [title |-> t, published |-> p, has_primary |-> h, primary |-> c]

ArxivRecords ==
    { FeedRecord(RawA1, D2, TRUE, "cs.AI"),
      FeedRecord(RawB, D3, TRUE, "cs.LG"),
      FeedRecord(RawB, D1, TRUE, "cs.AI"),
      FeedRecord(RawA2, D4, TRUE, "q-bio.GN"),
      FeedRecord(RawB, BadDate, TRUE, "cs.AI"),
      FeedRecord(RawA2, D2, FALSE, "") }

ArxivResponses ==
    {[status |-> 500, entries |-> <<>>]}
    \cup {[status |-> 200, entries |-> es] : es \in SeqsUpTo(ArxivRecords, MaxFeed)}

JsonRecord(t, d, c) == [title |-> t, date |-> d, category |-> c]

JsonResponses(records) ==
    {[status |-> 500, has_collection |-> FALSE, collection |-> <<>>],
     [status |-> 200, has_collection |-> FALSE, collection |-> <<>>]}
    \cup {[status |-> 200, has_collection |-> TRUE, collection |-> c] :
             c \in SeqsUpTo(records, MaxCollection)}

BiorxivRecords ==
    { JsonRecord(RawA2, D2, "genomics"),
      JsonRecord(RawC, D1, "Genomics"),
      JsonRecord(RawC, D3, "neuroscience"),
      JsonRecord(RawB, <<>>, "genomics"),
      JsonRecord(RawB, <<>>, "zoology") }

MedrxivRecords ==
    { JsonRecord(RawC, D3, "epidemiology"),
      JsonRecord(RawA1, D4, "Epidemiology"),
      JsonRecord(RawB, <<>>, "epidemiology") }

WindowArgs == {<<NoDate, NoDate>>, <<D2, D3>>}
Todays == {D3}

(***************************************************************************)
(* fetch_all_papers up to the concatenation of the adapters' entries.      *)
(***************************************************************************)
NoAnnotation == [reason |-> "", is_relevant |-> FALSE, relevance_score |-> 0]
NoReport == <<>>

\* no record has been handed to get_pdf_link
InitLinkVars ==
    /\ record = <<>>
    /\ link = <<>>

\* no chat message is being handled
InitChatVars ==
    /\ command = "none"
    /\ bound = {}
    /\ shown = <<>>
    /\ answers = <<>>
    /\ summary_model = <<>>

InitAnnotVars ==
    /\ idx = 0
    /\ judged = <<>>
    /\ inFlight = 0
    /\ annotation = NoAnnotation
    /\ annotations = {}
    /\ relevant_entries = <<>>
    /\ ranked = <<>>
    /\ formatted_output = NoReport

Init ==
    /\ pc = "load"
    /\ error = NoError
    /\ files \in {f \in [FileNames -> {Absent} \cup {Stored(t) : t \in PrefTexts}
                                       \cup {Stored(c) : c \in Selections}] :
                     /\ f[PrefFile].exists => f[PrefFile].data \in PrefTexts
                     /\ f[CatFile].exists => f[CatFile].data \in Selections}
    /\ resources \in Taxonomies
    /\ \E w \in WindowArgs : start_date = w[1] /\ end_date = w[2]
    /\ today \in Todays
    /\ user_preferences = <<>>
    /\ categories = <<>>
    /\ categories_by_source = <<>>
    /\ requests = <<>>
    /\ response = <<>>
    /\ arxiv_entries = <<>>
    /\ biorxiv_entries = <<>>
    /\ medrxiv_entries = <<>>
    /\ all_entries = <<>>
    /\ InitAnnotVars
    /\ InitLinkVars
    /\ InitChatVars

\* an exception leaves fetch_all_papers
Fail(exc) ==
    /\ pc' = "failed"
    /\ error' = exc

\* the load that writes an empty default for a missing file before it fails
LoadPreferencesWritingDefaults ==
    /\ pc = "load"
    /\ LET r == load_user_preferences(files) IN
       IF r.exc # NoError
       THEN /\ Fail(r.exc)
            /\ files' = [f \in FileNames |->
                            IF files[f].exists THEN files[f] ELSE Stored(<<>>)]
            /\ UNCHANGED <<user_preferences, categories>>
       ELSE /\ pc' = "resolve"
            /\ user_preferences' = r.user_preferences
            /\ categories' = r.categories
            /\ UNCHANGED <<error, files>>
    /\ UNCHANGED <<resources, start_date, end_date, today,
                   categories_by_source, requests, response, arxiv_entries,
                   biorxiv_entries, medrxiv_entries, all_entries>>
    /\ UNCHANGED annotVars
    /\ UNCHANGED <<linkVars, chatVars>>

\* line 91
LoadPreferences ==
    /\ pc = "load"
    /\ LET r == load_user_preferences(files) IN
       IF r.exc # NoError
       THEN /\ Fail(r.exc)
            /\ UNCHANGED <<user_preferences, categories>>
       ELSE /\ pc' = "resolve"
            /\ user_preferences' = r.user_preferences
            /\ categories' = r.categories
            /\ UNCHANGED error
    /\ UNCHANGED <<files, resources, start_date, end_date, today,
                   categories_by_source, requests, response, arxiv_entries,
                   biorxiv_entries, medrxiv_entries, all_entries>>
    /\ UNCHANGED annotVars
    /\ UNCHANGED <<linkVars, chatVars>>

\* the values categories_by_source can take: each source of the taxonomy is
\* mapped to a list of its resolved codes, in the order list(set) gives
Resolutions(res, cats) ==
    LET lists == UNION {ListsOf(ResolvedCodes(res, cats, src)) : src \in Databases(res)}
    IN  {m \in [Databases(res) -> lists] :
            \A src \in Databases(res) : m[src] \in ListsOf(ResolvedCodes(res, cats, src))}

\* lines 93-101
ResolveCategories ==
    /\ pc = "resolve"
    /\ categories_by_source' \in Resolutions(resources, categories)
    /\ pc' = "fetch_arxiv"
    /\ UNCHANGED <<error, files, resources, start_date, end_date, today,
                   user_preferences, categories, requests, response,
                   arxiv_entries, biorxiv_entries, medrxiv_entries, all_entries>>
    /\ UNCHANGED annotVars
    /\ UNCHANGED <<linkVars, chatVars>>

\* lines 103-108
FetchArxiv ==
    /\ pc = "fetch_arxiv"
    /\ \E resp \in ArxivResponses :
          LET r == fetch_arxiv_papers(categories_by_source["arxiv"],
                                      start_date, end_date, today, resp)
              u == Unpack(r)
          IN  /\ requests' = Append(requests, r.request)
              /\ response' = resp
              /\ IF u.exc # NoError
                 THEN /\ Fail(u.exc)
                      /\ UNCHANGED arxiv_entries
                 ELSE /\ pc' = "fetch_biorxiv"
                      /\ arxiv_entries' = u.entries
                      /\ UNCHANGED error
    /\ UNCHANGED <<files, resources, start_date, end_date, today,
                   user_preferences, categories, categories_by_source,
                   biorxiv_entries, medrxiv_entries, all_entries>>
    /\ UNCHANGED annotVars
    /\ UNCHANGED <<linkVars, chatVars>>

\* lines 110-114
FetchBiorxiv ==
    /\ pc = "fetch_biorxiv"
    /\ \E resp \in JsonResponses(BiorxivRecords) :
          LET r == fetch_biorxiv_papers(categories_by_source["biorxiv"],
                                        start_date, end_date, today, resp)
              u == Unpack(r)
          IN  /\ requests' = Append(requests, r.request)
              /\ response' = resp
              /\ IF u.exc # NoError
                 THEN /\ Fail(u.exc)
                      /\ UNCHANGED biorxiv_entries
                 ELSE /\ pc' = "fetch_medrxiv"
                      /\ biorxiv_entries' = u.entries
                      /\ UNCHANGED error
    /\ UNCHANGED <<files, resources, start_date, end_date, today,
                   user_preferences, categories, categories_by_source,
                   arxiv_entries, medrxiv_entries, all_entries>>
    /\ UNCHANGED annotVars
    /\ UNCHANGED <<linkVars, chatVars>>

AllEntriesMedrxivSecond(arxiv, biorxiv, medrxiv) == arxiv \o medrxiv \o biorxiv

\* line 120: all_entries = arxiv_entries + biorxiv_entries + medrxiv_entries
AllEntries(arxiv, biorxiv, medrxiv) == arxiv \o biorxiv \o medrxiv

\* lines 115-120
FetchMedrxiv ==
    /\ pc = "fetch_medrxiv"
    /\ \E resp \in JsonResponses(MedrxivRecords) :
          LET r == fetch_medrxiv_papers(categories_by_source["medrxiv"],
                                        start_date, end_date, today, resp)
              u == Unpack(r)
          IN  /\ requests' = Append(requests, r.request)
              /\ response' = resp
              /\ IF u.exc # NoError
                 THEN /\ Fail(u.exc)
                      /\ UNCHANGED <<medrxiv_entries, all_entries>>
                 ELSE /\ pc' = "annotate"
                      /\ medrxiv_entries' = u.entries
                      /\ all_entries' = AllEntries(arxiv_entries, biorxiv_entries, u.entries)
                      /\ UNCHANGED error
    /\ UNCHANGED <<files, resources, start_date, end_date, today,
                   user_preferences, categories, categories_by_source,
                   arxiv_entries, biorxiv_entries>>
    /\ UNCHANGED annotVars
    /\ UNCHANGED <<linkVars, chatVars>>

Next ==
    \/ LoadPreferences
    \/ ResolveCategories
    \/ FetchArxiv
    \/ FetchBiorxiv
    \/ FetchMedrxiv

Spec == Init /\ [][Next]_vars

(***************************************************************************)
(* The annotation loop, the ranking and the report (lines 122-168).        *)
(***************************************************************************)
JudgeCap == 20

\* EntryAnnotation: Field(ge=1, le=10)
MinScore == 1
MaxScore == 10

Answer(r, b, n) == [reason |-> r, is_relevant |-> b, relevance_score |-> n]

\* what the judge may answer for an entry
JudgeAnswers ==
    { Answer("on topic", TRUE, 6),
      Answer("on topic", TRUE, 9),
      Answer("close match", TRUE, 9),
      Answer("off topic", FALSE, 10),
      Answer("off topic", FALSE, 0),
      Answer("on topic", TRUE, 11) }

ValidAnnotationAtLeastMin(a) == a.relevance_score >= MinScore

\* pydantic validation of the structured output
ValidAnnotation(a) ==
    /\ a.relevance_score >= MinScore
    /\ a.relevance_score <= MaxScore

\* a slice that is one entry too long
SampleOneMore(entries) ==
    SubSeq(entries, 1, IF Len(entries) < JudgeCap + 1 THEN Len(entries) ELSE JudgeCap + 1)

\* all_entries[:20]
Sample(entries) ==
    SubSeq(entries, 1, IF Len(entries) < JudgeCap THEN Len(entries) ELSE JudgeCap)

\* lines 133-137: what the step shows for a judged entry
Annotated(entry, a) ==
    [title |-> entry.title, is_relevant |-> a.is_relevant, reason |-> a.reason,
     relevance_score |-> a.relevance_score]

\* the one-row frame appended for a relevant entry
RowOf(entry, a) ==
    [title |-> entry.title, reason |-> a.reason, relevance_score |-> a.relevance_score]

\* pd.concat(relevant_entries, ignore_index=True): the rows numbered from 0
Concat(rows) ==
    [i \in 1..Len(rows) |->
        [index |-> i - 1, title |-> rows[i].title, reason |-> rows[i].reason,
         relevance_score |-> rows[i].relevance_score]]

\* the sort with ascending=True
SortValuesAscending(frame) ==
    LET n == Len(frame)
        perms == {p \in [1..n -> 1..n] : \A i, j \in 1..n : i # j => p[i] # p[j]}
    IN  {[i \in 1..n |-> frame[p[i]]] : p \in
            {q \in perms : \A i \in 1..n, j \in 1..n :
                i < j => frame[q[i]].relevance_score <= frame[q[j]].relevance_score}}

\* sort_values(by="relevance_score", ascending=False) with the default
\* kind="quicksort", which is not stable: every arrangement of the rows with
\* non-increasing scores is a possible result
SortValues(frame) ==
    LET n == Len(frame)
        perms == {p \in [1..n -> 1..n] : \A i, j \in 1..n : i # j => p[i] # p[j]}
    IN  {[i \in 1..n |-> frame[p[i]]] : p \in
            {q \in perms : \A i \in 1..n, j \in 1..n :
                i < j => frame[q[i]].relevance_score >= frame[q[j]].relevance_score}}

\* drop_duplicates with keep="last"
RECURSIVE DropDuplicatesKeepLast(_)
DropDuplicatesKeepLast(frame) ==
    IF frame = <<>> THEN <<>>
    ELSE LET rest == Tail(frame)
         IN  IF \E i \in 1..Len(rest) : rest[i].title = Head(frame).title
             THEN DropDuplicatesKeepLast(rest)
             ELSE <<Head(frame)>> \o DropDuplicatesKeepLast(rest)

\* drop_duplicates(subset="title"): the first row of each title is kept
RECURSIVE DropDuplicates(_)
DropDuplicates(frame) ==
    IF frame = <<>> THEN <<>>
    ELSE LET init == SubSeq(frame, 1, Len(frame) - 1)
             last == frame[Len(frame)]
         IN  IF \E i \in 1..Len(init) : init[i].title = last.title
             THEN DropDuplicates(init)
             ELSE Append(DropDuplicates(init), last)

\* the report numbered by the label of the row in the data frame
FormatReportByIndex(frame) ==
    [k \in 1..Len(frame) |->
        [paper |-> frame[k].index + 1, title |-> frame[k].title,
         score |-> frame[k].relevance_score, reason |-> frame[k].reason]]

\* lines 158-167: one block per row, numbered from 1
FormatReport(frame) ==
    [k \in 1..Len(frame) |->
        [paper |-> k, title |-> frame[k].title,
         score |-> frame[k].relevance_score, reason |-> frame[k].reason]]

JudgeCallWithoutAwait ==
    /\ pc \in {"annotate", "judging"}
    /\ Len(judged) < Len(Sample(all_entries))
    /\ judged' = Append(judged, Sample(all_entries)[Len(judged) + 1])
    /\ inFlight' = inFlight + 1
    /\ pc' = "judging"
    /\ UNCHANGED <<error, all_entries, idx, annotation, annotations,
                   relevant_entries, ranked, formatted_output>>
    /\ UNCHANGED fetchVars
    /\ UNCHANGED <<linkVars, chatVars>>

\* line 127-131: the next entry of the sample is sent to the judge
JudgeCall ==
    /\ pc = "annotate"
    /\ idx < Len(Sample(all_entries))
    /\ judged' = Append(judged, Sample(all_entries)[idx + 1])
    /\ inFlight' = inFlight + 1
    /\ pc' = "judging"
    /\ UNCHANGED <<error, all_entries, idx, annotation, annotations,
                   relevant_entries, ranked, formatted_output>>
    /\ UNCHANGED fetchVars
    /\ UNCHANGED <<linkVars, chatVars>>

\* lines 129-139: the judge call returns an annotation or raises
JudgeReturn ==
    /\ pc = "judging"
    /\ inFlight' = inFlight - 1
    /\ \/ /\ Fail(Raise("APIError", "the judge call failed"))
          /\ UNCHANGED <<idx, annotation, annotations>>
       \/ \E a \in JudgeAnswers :
             /\ a.is_relevant => Len(relevant_entries) < MaxRelevant
             /\ IF ~ValidAnnotation(a)
                THEN /\ Fail(Raise("ValidationError", "relevance_score out of range"))
                     /\ UNCHANGED <<idx, annotation, annotations>>
                ELSE /\ annotation' = a
                     /\ annotations' = annotations \cup {Annotated(judged[Len(judged)], a)}
                     /\ idx' = idx + 1
                     /\ pc' = "sleeping"
                     /\ UNCHANGED error
    /\ UNCHANGED <<all_entries, judged, relevant_entries, ranked, formatted_output>>
    /\ UNCHANGED fetchVars
    /\ UNCHANGED <<linkVars, chatVars>>

KeepEveryAnnotation(a) == TRUE

\* line 144: if annotation.is_relevant
Keep(a) == a.is_relevant

\* lines 142-149: the pause ends, a relevant entry's row is appended
Pause ==
    /\ pc = "sleeping"
    /\ relevant_entries' =
          IF Keep(annotation)
          THEN Append(relevant_entries, RowOf(judged[Len(judged)], annotation))
          ELSE relevant_entries
    /\ pc' = "annotate"
    /\ UNCHANGED <<error, all_entries, idx, judged, inFlight, annotation,
                   annotations, ranked, formatted_output>>
    /\ UNCHANGED fetchVars
    /\ UNCHANGED <<linkVars, chatVars>>

\* the task running fetch_all_papers is cancelled while it awaits the judge
\* call (line 128) or the pause (line 142): CancelledError is raised at the
\* await, no later statement of the function runs and nothing is returned
Cancel ==
    /\ pc \in {"judging", "sleeping"}
    /\ Fail(Raise("CancelledError",
                  IF pc = "sleeping" THEN "during the pause" ELSE "during the judge call"))
    /\ inFlight' = 0
    /\ UNCHANGED <<all_entries, idx, judged, annotation, annotations,
                   relevant_entries, ranked, formatted_output>>
    /\ UNCHANGED fetchVars
    /\ UNCHANGED <<linkVars, chatVars>>

\* lines 151-168: after the loop, rank the rows and write the report
Rank ==
    /\ pc = "annotate"
    /\ idx >= Len(Sample(all_entries))
    /\ IF relevant_entries = <<>>
       THEN /\ Fail(Raise("ValueError", "No objects to concatenate"))
            /\ UNCHANGED <<ranked, formatted_output>>
       ELSE /\ \E sorted \in SortValues(Concat(relevant_entries)) :
                  /\ ranked' = DropDuplicates(sorted)
                  /\ formatted_output' = FormatReport(DropDuplicates(sorted))
            /\ pc' = "done"
            /\ UNCHANGED error
    /\ UNCHANGED <<all_entries, idx, judged, inFlight, annotation, annotations,
                   relevant_entries>>
    /\ UNCHANGED fetchVars
    /\ UNCHANGED <<linkVars, chatVars>>

(***************************************************************************)
(* The loop and the ranking on their own: fetch_all_papers at line 122,    *)
(* with the entries the adapters can have returned.                        *)
(***************************************************************************)
TitleA == CleanTitle(RawA1)
TitleB == CleanTitle(RawB)
TitleC == CleanTitle(RawC)

ArxivA == Entry(TitleA, FormatPublished(D2), "cs.AI", "arxiv")
ArxivB == Entry(TitleB, FormatPublished(D3), "cs.LG", "arxiv")
BiorxivA == Entry(TitleA, FormatPublished(D2), "genomics", "biorxiv")
MedrxivC == Entry(TitleC, FormatPublished(D3), "epidemiology", "medrxiv")

\* a full page of arXiv entries, one short of the cap
Bulk == [i \in 1..(JudgeCap - 1) |-> IF i % 2 = 1 THEN ArxivA ELSE ArxivB]

FetchedEntries ==
    {t \in (SeqsUpTo({ArxivA, ArxivB}, 2) \cup {Bulk})
            \X {<<>>, <<BiorxivA>>} \X {<<>>, <<MedrxivC>>} :
        \/ Len(t[1]) + Len(t[2]) + Len(t[3]) <= MaxEntries
        \/ t = <<Bulk, <<BiorxivA>>, <<MedrxivC>> >>}

FullSelection == <<"cs.AI", "cs.LG", "Genomics", "Epidemiology">>
FullTaxonomy ==
    << Row("cs.AI", "arxiv"), Row("cs.LG", "arxiv"),
       Row("Genomics", "biorxiv"), Row("neuroscience", "biorxiv"),
       Row("Epidemiology", "medrxiv") >>

AnnotateInit ==
    /\ pc = "annotate"
    /\ error = NoError
    /\ files = [f \in FileNames |->
                   IF f = PrefFile THEN Stored(CHOOSE t \in PrefTexts : TRUE)
                   ELSE Stored(FullSelection)]
    /\ resources = FullTaxonomy
    /\ start_date = D2
    /\ end_date = D3
    /\ today = D3
    /\ user_preferences = files[PrefFile].data
    /\ categories = FullSelection
    /\ categories_by_source = [src \in Sources |->
          IF src = "arxiv" THEN <<"cs.AI", "cs.LG">>
          ELSE IF src = "biorxiv" THEN <<"Genomics">> ELSE <<"Epidemiology">>]
    /\ requests = << Request("arxiv", <<"cs.AI", "cs.LG">>, D2, D3),
                     Request("biorxiv", <<>>, D2, D3),
                     Request("medrxiv", <<>>, D2, D3) >>
    /\ response = <<>>
    /\ \E t \in FetchedEntries :
          /\ arxiv_entries = t[1]
          /\ biorxiv_entries = t[2]
          /\ medrxiv_entries = t[3]
          /\ all_entries = AllEntries(t[1], t[2], t[3])
    /\ InitAnnotVars
    /\ InitLinkVars
    /\ InitChatVars

AnnotateNext ==
    \/ JudgeCall
    \/ JudgeReturn
    \/ Pause
    \/ Cancel
    \/ Rank

AnnotateSpec == AnnotateInit /\ [][AnnotateNext]_vars

(***************************************************************************)
(* get_pdf_link of the two adapters, applied to one upstream record.  A    *)
(* URL or a DOI is a sequence of tokens; the empty string is <<>>.         *)
(***************************************************************************)
MaxUrl == 3  \* tokens in a page URL or a DOI

\* str.replace("/abs/", "/pdf/"): every occurrence is replaced
ReplaceAbs(url) == [i \in 1..Len(url) |-> IF url[i] = "/abs/" THEN "/pdf/" ELSE url[i]]

\* get_pdf_link of arxiv.py: entry.link raises AttributeError on a feedparser
\* entry that has no link; an empty link gives ""
arxiv_get_pdf_link(entry) ==
    IF ~entry.has_link
    THEN [exc |-> Raise("AttributeError", "object has no attribute 'link'"), ret |-> <<>>]
    ELSE LET page_url == entry.link IN
         IF page_url = <<>>
         THEN [exc |-> NoError, ret |-> <<>>]
         ELSE [exc |-> NoError, ret |-> Append(ReplaceAbs(page_url), ".pdf")]

\* get_pdf_link of bioarxiv.py: entry.get("doi", ""), "" for a falsy DOI
\* (the key is missing, or its value is null or the empty string)
biorxiv_get_pdf_link(entry) ==
    LET doi == IF entry.has_doi THEN entry.doi ELSE <<>> IN
    IF ~entry.has_doi \/ entry.doi_null \/ doi = <<>>
    THEN [exc |-> NoError, ret |-> <<>>]
    ELSE [exc |-> NoError,
          ret |-> <<"https://www.biorxiv.org/content/">> \o doi \o <<"v1.full.pdf">>]

UrlTokens == {"https://arxiv.org", "/abs/", "/pdf/", "2403.12345"}

DoiTokens == {"10.1101/", "2024.03.21.586123", "v2"}

\* the feedparser entries and the bioRxiv records a link is computed for
LinkRecords ==
    {[database |-> "arxiv", has_link |-> FALSE, link |-> <<>>]}
    \cup {[database |-> "arxiv", has_link |-> TRUE, link |-> u] :
              u \in SeqsUpTo(UrlTokens, MaxUrl)}
    \cup {[database |-> "biorxiv", has_doi |-> FALSE, doi_null |-> FALSE, doi |-> <<>>],
          [database |-> "biorxiv", has_doi |-> TRUE, doi_null |-> TRUE, doi |-> <<>>]}
    \cup {[database |-> "biorxiv", has_doi |-> TRUE, doi_null |-> FALSE, doi |-> d] :
              d \in SeqsUpTo(DoiTokens, MaxUrl)}

\* no run of fetch_all_papers is under way
IdleFetchVars ==
    /\ files = [f \in FileNames |-> Absent]
    /\ resources = <<>>
    /\ start_date = NoDate
    /\ end_date = NoDate
    /\ today = D3
    /\ user_preferences = <<>>
    /\ categories = <<>>
    /\ categories_by_source = <<>>
    /\ requests = <<>>
    /\ response = <<>>
    /\ arxiv_entries = <<>>
    /\ biorxiv_entries = <<>>
    /\ medrxiv_entries = <<>>

LinkInit ==
    /\ pc = "link"
    /\ error = NoError
    /\ record \in LinkRecords
    /\ link = <<>>
    /\ IdleFetchVars
    /\ all_entries = <<>>
    /\ InitAnnotVars
    /\ InitChatVars

\* arxiv.py line 108: link=get_pdf_link(entry)
ArxivLink ==
    /\ pc = "link"
    /\ record.database = "arxiv"
    /\ LET r == arxiv_get_pdf_link(record) IN
       IF r.exc # NoError
       THEN Fail(r.exc) /\ UNCHANGED link
       ELSE pc' = "linked" /\ link' = r.ret /\ UNCHANGED error
    /\ UNCHANGED <<record, all_entries>>
    /\ UNCHANGED <<fetchVars, annotVars, chatVars>>

\* bioarxiv.py line 84: link=get_pdf_link(entry)
BiorxivLink ==
    /\ pc = "link"
    /\ record.database = "biorxiv"
    /\ LET r == biorxiv_get_pdf_link(record) IN
       IF r.exc # NoError
       THEN Fail(r.exc) /\ UNCHANGED link
       ELSE pc' = "linked" /\ link' = r.ret /\ UNCHANGED error
    /\ UNCHANGED <<record, all_entries>>
    /\ UNCHANGED <<fetchVars, annotVars, chatVars>>

LinkNext ==
    \/ ArxivLink
    \/ BiorxivLink

LinkSpec == LinkInit /\ [][LinkNext]_vars

(***************************************************************************)
(* The chat handler on_message and the Initialize dialogue                 *)
(* initialize_preferences (src/arxiveroo/chatbot/chatbot.py), followed by  *)
(* a run of fetch_all_papers on the same preference directory.             *)
(***************************************************************************)
MaxRounds == 2  \* refinement rounds of one Initialize dialogue

SummaryFile == "interests_summary.json"

\* the files of the preference directory the chatbot and the loader name
ChatFileNames == FileNames \cup {SummaryFile}

\* msg.command: the two registered commands, ApplyPreferences, or no command
Commands == {"Initialize", "ListCategories", "ApplyPreferences", "none"}

\* the model's answers for the summary of the user's interests
Summaries == {<<"genomics", "methods">>, <<"language", "models">>}

\* the model's structured answers: lists of codes of the taxonomy
ModelSelections ==
    {<<>>, <<"cs.AI">>, <<"cs.AI", "Genomics">>, <<"Genomics", "Epidemiology">>}

UnboundLocal(name) == Raise("UnboundLocalError", name)

ChatInit ==
    /\ pc = "message"
    /\ error = NoError
    /\ files \in {f \in [ChatFileNames -> {Absent} \cup {Stored(t) : t \in PrefTexts}
                                           \cup {Stored(c) : c \in ModelSelections}
                                           \cup {Stored(t) : t \in Summaries}] :
                     /\ f[PrefFile].exists => f[PrefFile].data \in PrefTexts
                     /\ f[CatFile].exists => f[CatFile].data \in ModelSelections
                     /\ f[SummaryFile].exists => f[SummaryFile].data \in Summaries}
    /\ resources = FullTaxonomy
    /\ start_date = NoDate
    /\ end_date = NoDate
    /\ today = D3
    /\ user_preferences = <<>>
    /\ categories = <<>>
    /\ categories_by_source = <<>>
    /\ requests = <<>>
    /\ response = <<>>
    /\ arxiv_entries = <<>>
    /\ biorxiv_entries = <<>>
    /\ medrxiv_entries = <<>>
    /\ all_entries = <<>>
    /\ InitAnnotVars
    /\ InitLinkVars
    /\ command \in Commands
    /\ bound = {"messages"}
    /\ shown = <<>>
    /\ answers = <<>>
    /\ summary_model = <<>>

\* what a step of the chat leaves alone besides pc, error, files and chatVars
ChatFrame ==
    /\ UNCHANGED <<resources, start_date, end_date, today, user_preferences,
                   categories, categories_by_source, requests, response,
                   arxiv_entries, biorxiv_entries, medrxiv_entries, all_entries>>
    /\ UNCHANGED <<annotVars, linkVars>>

\* lines 231-257: the branch on msg.command.  The name tool is neither
\* imported nor defined in chatbot.py, so the two branches that build a tool
\* list raise NameError after binding model.
OnMessage ==
    /\ pc = "message"
    /\ CASE command = "Initialize" ->
              /\ pc' = "summarize"
              /\ UNCHANGED <<error, bound>>
         [] command = "ListCategories" ->
              /\ pc' = "respond"
              /\ UNCHANGED <<error, bound>>
         [] OTHER ->
              /\ bound' = bound \cup {"model"}
              /\ Fail(Raise("NameError", "name 'tool' is not defined"))
    /\ UNCHANGED <<files, command, shown, answers, summary_model>>
    /\ ChatFrame

\* lines 113-150: the conversation is summarised by the model and the
\* summary is written to interests_summary.json
InterestsSummary ==
    /\ pc = "summarize"
    /\ \E t \in Summaries :
          /\ summary_model' = t
          /\ files' = [files EXCEPT ![SummaryFile] = Stored(t)]
    /\ pc' = "select"
    /\ UNCHANGED <<error, command, bound, shown, answers>>
    /\ ChatFrame

\* lines 152-172: the first selection is written to categories.json and
\* shown to the user
FirstSelection ==
    /\ pc = "select"
    /\ \E selected_categories \in ModelSelections :
          /\ files' = [files EXCEPT ![CatFile] = Stored(selected_categories)]
          /\ shown' = selected_categories
    /\ pc' = "ask"
    /\ UNCHANGED <<error, command, bound, answers, summary_model>>
    /\ ChatFrame

\* lines 177-187: the user answers Yes; initialize_preferences returns to
\* on_message line 259
Satisfied ==
    /\ pc = "ask"
    /\ answers' = Append(answers, "Yes")
    /\ pc' = "respond"
    /\ UNCHANGED <<error, files, command, bound, shown, summary_model>>
    /\ ChatFrame

\* the refinement that shows the new selection and does not save it
RefineWithoutSaving ==
    /\ pc = "ask"
    /\ Len(answers) < MaxRounds
    /\ answers' = Append(answers, "No")
    /\ \E selected_categories \in ModelSelections :
          shown' = selected_categories
    /\ UNCHANGED <<pc, error, files, command, bound, summary_model>>
    /\ ChatFrame

\* lines 188-211: the user answers No and says what to change; the refined
\* selection is written to categories.json and shown, and the prompt is
\* asked again
Refine ==
    /\ pc = "ask"
    /\ Len(answers) < MaxRounds
    /\ answers' = Append(answers, "No")
    /\ \E selected_categories \in ModelSelections :
          /\ files' = [files EXCEPT ![CatFile] = Stored(selected_categories)]
          /\ shown' = selected_categories
    /\ UNCHANGED <<pc, error, command, bound, summary_model>>
    /\ ChatFrame

\* lines 259-266: response.tool_calls is read; process_tool_call is a plain
\* function, so awaiting its result raises TypeError
Respond ==
    /\ pc = "respond"
    /\ IF "response" \notin bound
       THEN Fail(UnboundLocal("response"))
       ELSE \E tool_calls \in BOOLEAN :
               IF tool_calls
               THEN IF "available_tools" \notin bound
                    THEN Fail(UnboundLocal("available_tools"))
                    ELSE Fail(Raise("TypeError", "object can't be used in 'await' expression"))
               ELSE pc' = "replied" /\ UNCHANGED error
    /\ UNCHANGED <<files, command, bound, shown, answers, summary_model>>
    /\ ChatFrame

\* the Initialize dialogue has ended with the user's Yes
Initialized == answers # <<>> /\ answers[Len(answers)] = "Yes"

\* fetch_all_papers is called after the Initialize message has been handled
StartFetch ==
    /\ pc \in {"replied", "failed"}
    /\ Initialized
    /\ user_preferences = <<>>
    /\ error.type # "FileNotFoundError"
    /\ pc' = "load"
    /\ error' = NoError
    /\ UNCHANGED <<files, command, bound, shown, answers, summary_model>>
    /\ ChatFrame

ChatNext ==
    \/ OnMessage
    \/ InterestsSummary
    \/ FirstSelection
    \/ Satisfied
    \/ Refine
    \/ Respond
    \/ StartFetch
    \/ LoadPreferences

ChatSpec == ChatInit /\ [][ChatNext]_vars

(***************************************************************************)
(* Properties.                                                             *)
(***************************************************************************)
EntriesOf(src) ==
    CASE src = "arxiv" -> arxiv_entries
      [] src = "biorxiv" -> biorxiv_entries
      [] OTHER -> medrxiv_entries

LastSource == requests[Len(requests)].source

WindowStart == DefaultDate(start_date, today)
WindowEnd == DefaultDate(end_date, today)

\* the calendar date an Entry.published string "dd/mm/YYYY" denotes
PublishedDate(p) == <<p[3], p[2], p[1]>>

Maximum(S) == CHOOSE x \in S : \A y \in S : y <= x
Minimum(a, b) == IF a < b THEN a ELSE b

RelevantAnnotations == {a \in annotations : a.is_relevant}

RankedIndices == 1..Len(ranked)

\* the loop over the sample has ended and the ranking has been attempted
LoopLeft == pc = "done" \/ error = Raise("ValueError", "No objects to concatenate")

\* C1: when an upstream source answers with a non-success status while the
\* sources queried before it returned entries, no exception leaves
\* fetch_all_papers and the failing source contributes zero entries.
C1_UpstreamFailureTolerated ==
    (/\ requests # <<>>
     /\ response.status # 200
     /\ \A i \in 1..(Len(requests) - 1) : EntriesOf(requests[i].source) # <<>>)
    => (error = NoError /\ EntriesOf(LastSource) = <<>>)

\* C2: the ranked output holds exactly one row per distinct title among the
\* relevant annotations, and the row's score is the maximum score over the
\* relevant annotations of that title.
C2_OneRowPerTitleWithMaxScore ==
    pc = "done" =>
        /\ {ranked[k].title : k \in RankedIndices} = {a.title : a \in RelevantAnnotations}
        /\ \A j, k \in RankedIndices : j # k => ranked[j].title # ranked[k].title
        /\ \A k \in RankedIndices :
              ranked[k].relevance_score =
                  Maximum({a.relevance_score :
                              a \in {b \in RelevantAnnotations : b.title = ranked[k].title}})

\* C2 witness: a title judged relevant twice with different scores, beside
\* another relevant title, has been ranked
C2_Witness ==
    /\ pc = "done"
    /\ Len(ranked) = 2
    /\ \E a, b \in RelevantAnnotations :
          a.title = b.title /\ a.relevance_score < b.relevance_score

\* C3: when no row is relevant (nothing fetched or nothing judged relevant),
\* fetch_all_papers returns a report with an empty body and raises nothing.
C3_EmptyRowsGiveEmptyReport ==
    (/\ idx = Len(Sample(all_entries))
     /\ relevant_entries = <<>>
     /\ error.type # "CancelledError"
     /\ pc \notin {"annotate", "sleeping"})
    => (pc = "done" /\ error = NoError /\ formatted_output = <<>>)

\* C4: a source whose resolved category set is empty is never sent a request
\* and contributes zero entries.
C4_EmptyCategoriesNotQueried ==
    \A src \in DOMAIN categories_by_source :
        categories_by_source[src] = <<>> =>
            /\ \A i \in 1..Len(requests) : requests[i].source # src
            /\ EntriesOf(src) = <<>>

\* C5: every entry an adapter returned has its published date inside the
\* window [start_date, end_date], whatever the upstream response was.
C5_PublishedWithinWindow ==
    \A src \in Sources :
        \A i \in 1..Len(EntriesOf(src)) :
            /\ DateLE(WindowStart, PublishedDate(EntriesOf(src)[i].published))
            /\ DateLE(PublishedDate(EntriesOf(src)[i].published), WindowEnd)

\* C6: the entries sent to the judge are always a prefix of the concatenated
\* entries of at most 20 entries, each position sent once and in order, and
\* when the loop has ended exactly min(n, 20) entries have been sent.
C6_JudgeSeesCappedPrefix ==
    /\ Len(judged) <= Minimum(Len(all_entries), 20)
    /\ judged = SubSeq(all_entries, 1, Len(judged))
    /\ LoopLeft => Len(judged) = Minimum(Len(all_entries), 20)

\* C6 witness: more than 20 entries were concatenated and the loop has ended
C6_Witness ==
    /\ pc = "done"
    /\ Len(all_entries) > 20
    /\ Len(judged) = 20

\* C7: the ranked rows are in non-increasing order of relevance_score.
C7_RankedByScoreDescending ==
    pc = "done" =>
        \A k \in 1..(Len(ranked) - 1) :
            ranked[k].relevance_score >= ranked[k + 1].relevance_score

\* C7 witness: rows appended in increasing score order have been ranked
C7_Witness ==
    /\ pc = "done"
    /\ Len(ranked) >= 2
    /\ ranked[1].relevance_score > ranked[2].relevance_score
    /\ relevant_entries[1].relevance_score < relevant_entries[2].relevance_score

\* the position at which a title first appears among the relevant rows
FirstAppearance(title) ==
    CHOOSE i \in 1..Len(relevant_entries) :
        /\ relevant_entries[i].title = title
        /\ \A j \in 1..(i - 1) : relevant_entries[j].title # title

\* C8: two surviving rows with equal scores appear in the order in which their
\* titles first appeared among the relevant annotated entries.
C8_TiesInFirstAppearanceOrder ==
    pc = "done" =>
        \A j, k \in RankedIndices :
            (j < k /\ ranked[j].relevance_score = ranked[k].relevance_score)
            => FirstAppearance(ranked[j].title) < FirstAppearance(ranked[k].title)

\* C9: when the preference text or the category selection is missing,
\* fetch_all_papers fails with the error that asks for Initialize, and no
\* adapter request and no judge call has been issued.
C9_MissingPreferencesFailFirst ==
    (~files[PrefFile].exists \/ ~files[CatFile].exists) =>
        /\ pc \in {"load", "failed"}
        /\ pc = "failed" => error = Raise("FileNotFoundError", InitializeFirst)
        /\ requests = <<>>
        /\ judged = <<>>

\* C9 witness: the run failed with only the category selection missing
C9_Witness ==
    /\ pc = "failed"
    /\ files[PrefFile].exists
    /\ ~files[CatFile].exists
    /\ error.type = "FileNotFoundError"

\* category resolution has run
Resolved == pc \in {"fetch_arxiv", "fetch_biorxiv", "fetch_medrxiv", "annotate"}
              \/ (pc = "failed" /\ requests # <<>>)

\* C10: after category resolution every source of the taxonomy is mapped to
\* exactly its taxonomy codes that the user selected, each once, and a source
\* with none of its codes selected is mapped to an empty collection.
C10_ResolutionIsIntersection ==
    Resolved =>
        /\ DOMAIN categories_by_source = {resources[i].database : i \in 1..Len(resources)}
        /\ \A src \in DOMAIN categories_by_source :
              /\ Range(categories_by_source[src]) =
                    {resources[i].category_code :
                        i \in {j \in 1..Len(resources) : resources[j].database = src}}
                    \cap Range(files[CatFile].data)
              /\ \A i, j \in 1..Len(categories_by_source[src]) :
                    i # j => categories_by_source[src][i] # categories_by_source[src][j]

\* C10 witness: one source resolved to nothing beside a source with codes
C10_Witness ==
    /\ pc = "fetch_arxiv"
    /\ categories_by_source["arxiv"] = <<>>
    /\ categories_by_source["biorxiv"] # <<>>

\* the entries the range-query adapters returned, each with the category
\* list its adapter was called with
RangeQueryEntries ==
    {<<biorxiv_entries[i], categories_by_source["biorxiv"]>> : i \in 1..Len(biorxiv_entries)}
    \cup {<<medrxiv_entries[i], categories_by_source["medrxiv"]>> : i \in 1..Len(medrxiv_entries)}

\* C11: for every Entry a range-query adapter returned, the lower-cased
\* category of the Entry is a member of the category set that was passed to
\* the adapter, whatever the case of the codes in that set.
C11_LoweredCategoryInPassedSet ==
    \A p \in RangeQueryEntries : Lower(p[1].category) \in Range(p[2])

\* C11 amended: for every Entry a range-query adapter returned, the
\* lower-cased category of the Entry is a member of the lower-cased codes of
\* the category set that was passed to the adapter.
C11_LoweredCategoryInLoweredSet ==
    \A p \in RangeQueryEntries :
        Lower(p[1].category) \in {Lower(c) : c \in Range(p[2])}

\* C11 witness: bioRxiv returned an Entry for a code passed with an
\* upper-case letter, beside a category that was not passed
C11_Witness ==
    /\ pc = "fetch_medrxiv"
    /\ "Genomics" \in Range(categories_by_source["biorxiv"])
    /\ \E i \in 1..Len(biorxiv_entries) : biorxiv_entries[i].category = "genomics"
    /\ \E i \in 1..Len(response.collection) :
          response.collection[i].category = "neuroscience"

\* the error an unparsable date string raises in strptime
DateError == Raise("ValueError", "time data does not match format")

\* the records of the last response and the date string of each
LastRecords ==
    IF LastSource = "arxiv" THEN FeedEntries(response) ELSE response.collection

DateOf(r) == IF LastSource = "arxiv" THEN r.published ELSE r.date

\* the well-formed records of the last response that pass the filters of the
\* adapter that was called
PassingRecords ==
    {i \in 1..Len(LastRecords) :
        LET r == LastRecords[i] IN
        /\ CanParseDate(DateOf(r))
        /\ LastSource = "arxiv" =>
               DateLE(WindowStart, ParseDate(DateOf(r))) /\ DateLE(ParseDate(DateOf(r)), WindowEnd)
        /\ LastSource = "biorxiv" =>
               Lower(r.category) \in {Lower(c) : c \in Range(categories_by_source["biorxiv"])}
        /\ LastSource = "medrxiv" =>
               /\ Lower(r.category) \in {Lower(c) : c \in Range(categories_by_source["medrxiv"])}
               /\ DateLE(WindowStart, ParseDate(DateOf(r)))
               /\ DateLE(ParseDate(DateOf(r)), WindowEnd)}

\* C12: when the response of an upstream source holds a record whose date
\* string cannot be parsed, the adapter raises nothing for it and returns an
\* Entry for every other record that passes its filters.
C12_MalformedDateSkipped ==
    (/\ requests # <<>>
     /\ \E i \in 1..Len(LastRecords) : ~CanParseDate(DateOf(LastRecords[i])))
    => /\ error # DateError
       /\ error = NoError => Len(EntriesOf(LastSource)) = Cardinality(PassingRecords)

\* C13: when the judge call fails for an entry (an API error, or an answer
\* that violates the annotation schema), no exception leaves fetch_all_papers:
\* the remaining entries are still judged and a ranked report is returned.
C13_JudgeFailureTolerated ==
    /\ error.type \notin {"APIError", "ValidationError"}
    /\ LoopLeft => Len(judged) = Len(Sample(all_entries))

\* C14: judge calls are sequential and paced: at most one call is in flight,
\* the call for an entry is in flight only when the calls for all entries
\* before it have returned and their pauses have ended, no call is issued
\* during a pause, and the calls are issued in the order of the concatenation.
C14_JudgeCallsSequentialAndPaced ==
    /\ inFlight \in {0, 1}
    /\ inFlight = 1 <=> pc = "judging"
    /\ pc = "judging" => Len(judged) = idx + 1
    /\ pc \in {"sleeping", "annotate", "done"} => Len(judged) = idx
    /\ Len(judged) <= Len(all_entries)
    /\ \A i \in 1..Len(judged) : judged[i] = all_entries[i]

\* C14 witness: the second call is in flight after the first call returned
\* and its pause ended
C14_Witness ==
    /\ pc = "judging"
    /\ inFlight = 1
    /\ idx = 1
    /\ Len(judged) = 2
    /\ judged[1] # judged[2]

\* the scores of the annotations the loop accepted, of the rows collected
\* from them and of the ranked rows
AcceptedScores ==
    {a.relevance_score : a \in annotations}
    \cup (IF pc = "sleeping" THEN {annotation.relevance_score} ELSE {})
    \cup {relevant_entries[i].relevance_score : i \in 1..Len(relevant_entries)}
    \cup {ranked[i].relevance_score : i \in 1..Len(ranked)}
    \cup {formatted_output[i].score : i \in 1..Len(formatted_output)}

\* C15: every annotation the loop accepted and every ranked row has an
\* integer relevance_score between 1 and 10; a judge answer outside the range
\* is rejected and reaches no row.
C15_ScoresWithinOneToTen ==
    \A x \in AcceptedScores : x \in Int /\ 1 <= x /\ x <= 10

\* C15 witness: an answer was rejected after relevant and non-relevant
\* answers had been accepted
C15_Witness ==
    /\ pc = "failed"
    /\ error = Raise("ValidationError", "relevance_score out of range")
    /\ relevant_entries # <<>>
    /\ \E a \in annotations : ~a.is_relevant

\* C16: when the loop is cancelled during the pause that follows the k-th
\* judge call, every relevant annotation made so far, the k-th included, is
\* retained as a row and the caller holds a ranked row for its title.
C16_CancelKeepsAnnotatedResults ==
    error = Raise("CancelledError", "during the pause") =>
        \A a \in RelevantAnnotations :
            /\ \E i \in 1..Len(relevant_entries) :
                  /\ relevant_entries[i].title = a.title
                  /\ relevant_entries[i].relevance_score = a.relevance_score
            /\ \E i \in 1..Len(ranked) : ranked[i].title = a.title

\* C17: the sequence handed to the annotation loop is the arXiv entries, then
\* the bioRxiv entries, then the medRxiv entries, each in the order its
\* adapter returned them, with no entry removed, repeated, merged or moved.
C17_ConcatenationInSourceOrder ==
    pc = "annotate" =>
        LET na == Len(arxiv_entries)
            nb == Len(biorxiv_entries)
            nm == Len(medrxiv_entries)
        IN  /\ Len(all_entries) = na + nb + nm
            /\ \A i \in 1..na : all_entries[i] = arxiv_entries[i]
            /\ \A i \in 1..nb : all_entries[na + i] = biorxiv_entries[i]
            /\ \A i \in 1..nm : all_entries[na + nb + i] = medrxiv_entries[i]

\* C17 witness: all three adapters returned entries, two of them with the
\* same title, and the loop is about to start
C17_Witness ==
    /\ pc = "annotate"
    /\ arxiv_entries # <<>>
    /\ biorxiv_entries # <<>>
    /\ medrxiv_entries # <<>>
    /\ \E i, j \in 1..Len(all_entries) :
          i < j /\ all_entries[i].title = all_entries[j].title

\* C18: the report holds exactly one block per ranked row, in ranked order;
\* the k-th block carries the number k, counted from 1 without gaps whatever
\* the index label of the row, and the title, score and reason of the k-th row.
C18_OneNumberedBlockPerRow ==
    pc = "done" =>
        /\ Len(formatted_output) = Len(ranked)
        /\ \A k \in RankedIndices :
              /\ formatted_output[k].paper = k
              /\ formatted_output[k].title = ranked[k].title
              /\ formatted_output[k].score = ranked[k].relevance_score
              /\ formatted_output[k].reason = ranked[k].reason

\* C18 witness: a report was written for ranked rows whose index labels are
\* neither in order nor without gaps
C18_Witness ==
    /\ pc = "done"
    /\ Len(formatted_output) = 2
    /\ ranked[1].index = 2
    /\ ranked[2].index = 0

\* C19: a title is in the ranked output only if a judged entry with that title
\* was annotated relevant, and the score and the reason of its row are those
\* of one annotation of that title with is_relevant = true; an annotation
\* with is_relevant = false gives no row, no score and no reason.
C19_RowsOnlyFromRelevantAnnotations ==
    /\ \A i \in 1..Len(relevant_entries) :
          \E a \in RelevantAnnotations :
              /\ a.title = relevant_entries[i].title
              /\ a.relevance_score = relevant_entries[i].relevance_score
              /\ a.reason = relevant_entries[i].reason
    /\ \A k \in RankedIndices :
          /\ \E j \in 1..Len(judged) : judged[j].title = ranked[k].title
          /\ \E a \in RelevantAnnotations :
                /\ a.title = ranked[k].title
                /\ a.relevance_score = ranked[k].relevance_score
                /\ a.reason = ranked[k].reason

\* C19 witness: a ranking was made after one title was judged relevant and
\* another title was judged not relevant with the highest score
C19_Witness ==
    /\ pc = "done"
    /\ ranked # <<>>
    /\ \E a \in annotations :
          /\ ~a.is_relevant
          /\ a.relevance_score = MaxScore
          /\ \A k \in RankedIndices : ranked[k].title # a.title

\* C20: no step of a run of fetch_all_papers creates, changes or deletes the
\* preference file, the selected-categories file or the category taxonomy:
\* their contents stay what they were, in the runs that fail as in the others.
C20_PersistedFilesUntouched ==
    [][/\ files' = files
       /\ resources' = resources]_vars

\* C20 witness: a run has failed on a missing preference file beside a
\* stored category selection
C20_Witness ==
    /\ pc = "failed"
    /\ ~files[PrefFile].exists
    /\ files[CatFile].exists
    /\ files[CatFile].data # <<>>

\* the record has no page URL (arXiv) or no DOI (bioRxiv)
NoIdentifier ==
    IF record.database = "arxiv"
    THEN ~record.has_link \/ record.link = <<>>
    ELSE ~record.has_doi \/ record.doi_null \/ record.doi = <<>>

\* C21: for every upstream record the Entry gets a link, which is empty
\* exactly when the record has no page URL (arXiv) or no DOI (bioRxiv);
\* otherwise it is, for arXiv, the page URL with every "/abs/" replaced by
\* "/pdf/" and ".pdf" appended, and for bioRxiv
\* "https://www.biorxiv.org/content/" followed by the DOI and "v1.full.pdf".
C21_LinkEmptyOrDocumentUrl ==
    pc # "link" =>
        /\ pc = "linked"
        /\ link = <<>> <=> NoIdentifier
        /\ (~NoIdentifier /\ record.database = "arxiv") =>
              /\ Len(link) = Len(record.link) + 1
              /\ link[Len(link)] = ".pdf"
              /\ \A i \in 1..Len(record.link) :
                    link[i] = IF record.link[i] = "/abs/" THEN "/pdf/" ELSE record.link[i]
        /\ (~NoIdentifier /\ record.database = "biorxiv") =>
              /\ Len(link) = Len(record.doi) + 2
              /\ link[1] = "https://www.biorxiv.org/content/"
              /\ link[Len(link)] = "v1.full.pdf"
              /\ \A i \in 1..Len(record.doi) : link[i + 1] = record.doi[i]

\* C22: once the Initialize dialogue has run to its end with the user's Yes,
\* a run of fetch_all_papers on the same preference directory finds the
\* preference text and the category selection that load_user_preferences
\* reads, and does not fail with the error that asks for Initialize.
C22_FetchAfterInitializeLoads ==
    Initialized =>
        /\ error # Raise("FileNotFoundError", InitializeFirst)
        /\ pc = "load" => \A f \in FileNames : files[f].exists

\* C23: whatever the command of the message, on_message reaches its final
\* step (line 259) with response and available_tools assigned in the branch
\* it took, and it never reads a name that has not been assigned.
C23_ResponseAssignedInEveryBranch ==
    /\ pc = "respond" => {"response", "available_tools"} \subseteq bound
    /\ error.type \notin {"UnboundLocalError", "NameError"}

\* the Initialize dialogue has been left
DialogueEnded ==
    command = "Initialize" /\ pc \notin {"message", "summarize", "select", "ask"}

\* C24: at every satisfaction prompt of the Initialize dialogue
\* categories.json holds exactly the selection last shown to the user,
\* after any number of refinement rounds; the dialogue is left only on the
\* answer Yes, every answer before it being No, and the file then holds the
\* selection the user confirmed.
C24_FileHoldsShownSelection ==
    /\ pc = "ask" =>
          /\ files[CatFile] = Stored(shown)
          /\ \A i \in 1..Len(answers) : answers[i] = "No"
    /\ DialogueEnded =>
          /\ Initialized
          /\ \A i \in 1..(Len(answers) - 1) : answers[i] = "No"
          /\ files[CatFile] = Stored(shown)

\* C24 witness: the user confirmed a selection of two codes after two
\* refinement rounds
C24_Witness ==
    /\ DialogueEnded
    /\ Len(answers) = 3
    /\ Len(shown) = 2
    /\ files[CatFile].data = shown

====
